---- MODULE Spec2Model ----
(***************************************************************************)
(* A model of the simple-nhl ingestion pipeline: the persistent cache      *)
(* (cache.py), the retrying fetcher (scraper_tools.py), the play-by-play   *)
(* parser and the game data store (game_data.py) and the derived           *)
(* statistics of a game record (shared_types.py).                          *)
(*                                                                         *)
(* Strings are sequences of characters (or of atomic tokens where the code *)
(* never looks inside them).  A call that raises is a result record with   *)
(* ok = FALSE and the exception in err.                                    *)
(***************************************************************************)
EXTENDS Integers, Sequences, FiniteSets, TLC

VARIABLES
  \* ---- cache.py: the data directory and the last cache operation
  files,      \* file name -> file contents, for the files that exist
  op,         \* the last operation: [name, key]
  ret,        \* what the last operation returned or raised
  called,     \* whether the last memoized call invoked the wrapped function
  fresh,      \* [key, val] of the last write while only reads of key followed
  \* ---- scraper_tools.py: one caller of read_url_to_string
  fpc,        \* where the call is: idle, helper, get, source, failed, wait, exit, done
  attempts,   \* invocations of read_url_to_string_helper in this call
  driver,     \* WebDriver._driver: "None" or "Firefox"
  live,       \* browser sessions created and not yet quit
  nCreated,   \* browser sessions created by this call
  errs,       \* the errors of this call's failed attempts, in order
  pending,    \* what the with-block is leaving with: a page or an exception
  fret,       \* what the call returned or raised
  \* ---- game_data.py: the play-by-play page and its parse
  page,       \* the rows of the page, each the texts of its spans
  parsed,     \* what the parse of page returned or raised, once it has run
  \* ---- shared_types.py: one GameData under construction
  pbp,        \* the plays handed to GameData(game, pbp)
  gd,         \* what the constructor returned or raised, once it has run
  \* ---- game_data.py: load_game_data, one call at a time
  memo,       \* functools.lru_cache of load_game_data: game -> record
  last,       \* the last call: [game, ret, fetched]
  tick,       \* flips at every call
  firstOk,    \* game -> the record of its first call that returned, or None
  nReads,     \* game -> the calls of read_url_to_string for the game's page
  nOk,        \* game -> those of them made by a call that returned a record
  \* ---- game_data.py: load_game_data called from several threads
  callers,    \* thread -> [pc, game, result, ret] of its call
  \* ---- game_data.py: make_dataset over the schedule pages of a season
  sched,      \* date -> the game rows the site's schedule page lists for it
  ds,         \* the last call: [portion, ret, games, reads, io]
  \* ---- shared_types.py: the properties of one GameData instance
  inst,       \* the instance, once it is constructed
  firstGot,   \* property -> the value its first access returned
  lastGot,    \* the last access: [name, val]
  computes    \* the runs of _compute_atts and of _compute_scores on it

cacheVars == <<files, op, ret, called, fresh>>
fetchVars == <<fpc, attempts, driver, live, nCreated, errs, pending, fret>>
parseVars == <<page, parsed>>
statVars == <<pbp, gd>>
storeVars == <<memo, last, tick, firstOk, nReads, nOk>>
datasetVars == <<sched, ds>>
accessVars == <<inst, firstGot, lastGot, computes>>

vars == <<cacheVars, fetchVars, parseVars, statVars, storeVars, callers,
          datasetVars, accessVars>>

\* Python values are tagged records, so that any two of them can be compared.
None == [t |-> "None"]
Str(s) == [t |-> "str", v |-> s]
NoOp == [name |-> "none", key |-> <<>>]
NoFresh == [key |-> <<"-">>, val |-> None, set |-> FALSE]

Ok(v) == [ok |-> TRUE, val |-> v]
Raise(e) == [ok |-> FALSE, err |-> e]

(***************************************************************************)
(* Bounds of the cache model.                                              *)
(***************************************************************************)
MaxKeyLen == 1

KeyChars == {"a", "/"}
RECURSIVE SeqsUpTo(_, _)
SeqsUpTo(S, n) ==
  IF n = 0 THEN {<<>>}
  ELSE LET shorter == SeqsUpTo(S, n - 1)
       IN shorter \cup {Append(s, c) : s \in {t \in shorter : Len(t) = n - 1}, c \in S}
Keys == SeqsUpTo(KeyChars, MaxKeyLen)
Values == {None, Str("v1")}

(***************************************************************************)
(* cache.py _transform_key: the key with every "/" removed, the suffix     *)
(* ".data" appended, under DATA_DIR.                                       *)
(***************************************************************************)
IsNotSlash(c) == c # "/"
TransformKey(key) == <<"DATA_DIR", "/">> \o SelectSeq(key, IsNotSlash) \o <<".data">>

(***************************************************************************)
(* pickle.dump / pickle.load as the code uses them: a framed stream of     *)
(* opcodes.  dump writes a protocol header, the value's opcode and STOP;   *)
(* load runs the opcodes on a stack and returns the top at STOP.  A stream *)
(* that ends before STOP raises EOFError, an unknown opcode or a STOP on   *)
(* an empty stack raises UnpicklingError.                                  *)
(***************************************************************************)
Opc(name, arg) == [opc |-> name, arg |-> arg]
PickleDump(value) ==
  <<Opc("PROTO", None),
    IF value = None THEN Opc("NONE", None) ELSE Opc("OBJ", value),
    Opc("STOP", None)>>

RECURSIVE PickleRun(_, _, _)
PickleRun(bytes, i, stack) ==
  IF i > Len(bytes) THEN Raise("EOFError")
  ELSE IF bytes[i].opc = "PROTO" THEN PickleRun(bytes, i + 1, stack)
  ELSE IF bytes[i].opc = "NONE" THEN PickleRun(bytes, i + 1, Append(stack, None))
  ELSE IF bytes[i].opc = "OBJ" THEN PickleRun(bytes, i + 1, Append(stack, bytes[i].arg))
  ELSE IF bytes[i].opc = "STOP" THEN
    IF stack = <<>> THEN Raise("UnpicklingError") ELSE Ok(stack[Len(stack)])
  ELSE Raise("UnpicklingError")
PickleLoad(bytes) == PickleRun(bytes, 1, <<>>)

(***************************************************************************)
(* cache.py BasicCacher, as operators on the data directory fs.            *)
(***************************************************************************)
Exists(fs, name) == name \in DOMAIN fs

\* try_to_read: None when the file does not exist, else pickle.load of it.
TryToReadNoCacher(fs, key) == Ok(None)
TryToReadMissOnError(fs, key) ==
  LET tkey == TransformKey(key)
      loaded == IF Exists(fs, tkey) THEN PickleLoad(fs[tkey]) ELSE Ok(None)
  IN IF loaded.ok THEN loaded ELSE Ok(None)
TryToRead(fs, key) ==
  LET tkey == TransformKey(key)
  IN IF Exists(fs, tkey) THEN PickleLoad(fs[tkey]) ELSE Ok(None)

\* open(tkey, "wb"): the file exists and is empty.
OpenForWrite(fs, name) ==
  [n \in DOMAIN fs \cup {name} |-> IF n = name THEN <<>> ELSE fs[n]]

\* write: open(tkey, "wb") then pickle.dump(value, f).
WriteAppend(fs, key, value) ==
  LET tkey == TransformKey(key)
      old == IF Exists(fs, tkey) THEN fs[tkey] ELSE <<>>
  IN [n \in DOMAIN fs \cup {tkey} |-> IF n = tkey THEN old \o PickleDump(value) ELSE fs[n]]
\* pickle.dump(value, f) and the close of f: the file holds the pickle.
DumpTo(fs, name, value) == [fs EXCEPT ![name] = PickleDump(value)]

Write(fs, key, value) ==
  DumpTo(OpenForWrite(fs, TransformKey(key)), TransformKey(key), value)

(***************************************************************************)
(* cache.py memoize: func_with_memo on the data directory fs, where        *)
(* funcResult is what the wrapped function returns or raises if invoked.   *)
(* The result is the new directory, what the call returned or raised, and  *)
(* whether func was invoked.                                               *)
(***************************************************************************)
MemoOut(fs, r, c) == [fs |-> fs, ret |-> r, called |-> c]
FuncWithMemoWriteFailure(fs, key, funcResult) ==
  LET cached == TryToRead(fs, key)
  IN IF ~cached.ok THEN MemoOut(fs, cached, FALSE)
     ELSE IF cached.val # None THEN MemoOut(fs, cached, FALSE)
     ELSE IF ~funcResult.ok THEN MemoOut(Write(fs, key, None), funcResult, TRUE)
     ELSE MemoOut(Write(fs, key, funcResult.val), funcResult, TRUE)
FuncWithMemo(fs, key, funcResult) ==
  LET cached == TryToRead(fs, key)
  IN IF ~cached.ok THEN MemoOut(fs, cached, FALSE)
     ELSE IF cached.val # None THEN MemoOut(fs, cached, FALSE)
     ELSE IF ~funcResult.ok THEN MemoOut(fs, funcResult, TRUE)
     ELSE MemoOut(Write(fs, key, funcResult.val), funcResult, TRUE)

(***************************************************************************)
(* The cache model: single cache operations on one data directory.         *)
(***************************************************************************)
NoFiles == [n \in {} |-> <<>>]
FuncResults == {Ok(v) : v \in Values} \cup {Raise("FuncError")}

CacheInit ==
  /\ files = NoFiles
  /\ op = NoOp
  /\ ret = Ok(None)
  /\ called = FALSE
  /\ fresh = NoFresh

\* BasicCacher().write(key, value)
DoWrite ==
  \E key \in Keys, value \in Values :
    /\ files' = Write(files, key, value)
    /\ op' = [name |-> "write", key |-> key]
    /\ ret' = Ok(None)
    /\ called' = FALSE
    /\ fresh' = [key |-> key, val |-> value, set |-> TRUE]
    /\ UNCHANGED <<fetchVars, parseVars, statVars, storeVars, callers, datasetVars, accessVars>>

\* BasicCacher().try_to_read(key)
DoRead ==
  \E key \in Keys :
    /\ ret' = TryToRead(files, key)
    /\ op' = [name |-> "read", key |-> key]
    /\ called' = FALSE
    /\ fresh' = IF fresh.set /\ fresh.key = key THEN fresh ELSE NoFresh
    /\ UNCHANGED <<files, fetchVars, parseVars, statVars, storeVars, callers, datasetVars, accessVars>>

\* memoize(key, BasicCacher())(func)()
DoMemo ==
  \E key \in Keys, funcResult \in FuncResults :
    LET out == FuncWithMemo(files, key, funcResult)
    IN /\ files' = out.fs
       /\ ret' = out.ret
       /\ called' = out.called
       /\ op' = [name |-> "memo", key |-> key]
       /\ fresh' = NoFresh
       /\ UNCHANGED <<fetchVars, parseVars, statVars, storeVars, callers, datasetVars, accessVars>>

\* A write that stops between open(tkey, "wb") and pickle.dump, or a file
\* that loses its tail on disk: the file for key exists and is cut short.
DoTruncate ==
  \E key \in Keys :
    LET tkey == TransformKey(key)
    IN /\ files' = IF Exists(files, tkey) /\ files[tkey] # <<>>
                    THEN [files EXCEPT ![tkey] = SubSeq(@, 1, Len(@) - 1)]
                    ELSE OpenForWrite(files, tkey)
       /\ op' = [name |-> "truncate", key |-> key]
       /\ ret' = Ok(None)
       /\ called' = FALSE
       /\ fresh' = NoFresh
       /\ UNCHANGED <<fetchVars, parseVars, statVars, storeVars, callers, datasetVars, accessVars>>

CacheNext == DoWrite \/ DoRead \/ DoMemo \/ DoTruncate

(***************************************************************************)
(* scraper_tools.py: read_url_to_string.  The helper is wrapped by         *)
(* retrying.retry(stop_max_attempt_number=3, wait_random_min=200,          *)
(* wait_random_max=400): every exception of an attempt is caught; after a  *)
(* failed attempt the call stops when the attempt number has reached the   *)
(* maximum and re-raises that attempt's exception, else it sleeps and      *)
(* tries again.  The sleep is outside the attempt, so an exception raised  *)
(* during it leaves the with-block at once.                                *)
(***************************************************************************)
StopMaxAttemptNumber == 3
MaxLive == 2

FetchErrors == {"TimeoutException", "WebDriverException"}
PageBodies == {Str("html1"), Str("html2")}
NoPending == Ok(None)

\* retrying: stop_after_attempt
ShouldStopOffByOne(attemptNumber) == attemptNumber > StopMaxAttemptNumber
ShouldStop(attemptNumber) == attemptNumber >= StopMaxAttemptNumber

\* WebDriver.__exit__: quit the driver if there is one, then forget it.
WebDriverExitNoQuit(d, l) == [driver |-> "None", live |-> l]
WebDriverExit(d, l) ==
  [driver |-> "None", live |-> IF d # "None" THEN l - 1 ELSE l]

\* WebDriver.driver(): whether a new browser session has to be created.
NeedsDriver(d) == d = "None"

\* What a step of read_url_to_string leaves alone besides its own state.
FetchFrame == UNCHANGED <<cacheVars, parseVars, statVars, storeVars, callers, datasetVars, accessVars>>

FetchIdle ==
  /\ fpc = "idle"
  /\ attempts = 0
  /\ driver = "None"
  /\ live = 0
  /\ nCreated = 0
  /\ errs = <<>>
  /\ pending = NoPending
  /\ fret = Ok(None)

\* read_url_to_string(url): enter the with-block with a new WebDriver.
FetchCall ==
  /\ fpc \in {"idle", "done"}
  /\ fpc' = "helper"
  /\ attempts' = 0
  /\ driver' = "None"
  /\ nCreated' = 0
  /\ errs' = <<>>
  /\ pending' = NoPending
  /\ fret' = Ok(None)
  /\ UNCHANGED <<live>>
  /\ FetchFrame

AttemptFails(e) ==
  /\ fpc' = "failed"
  /\ errs' = Append(errs, e)

\* An attempt begins: web_driver.driver() creates the session if there is
\* none, or raises.
HelperStart ==
  /\ fpc = "helper"
  /\ attempts' = attempts + 1
  /\ \/ /\ NeedsDriver(driver)
        /\ live < MaxLive
        /\ driver' = "Firefox"
        /\ live' = live + 1
        /\ nCreated' = nCreated + 1
        /\ fpc' = "get"
        /\ UNCHANGED errs
     \/ /\ NeedsDriver(driver)
        /\ \E e \in FetchErrors : AttemptFails(e)
        /\ UNCHANGED <<driver, live, nCreated>>
     \/ /\ ~NeedsDriver(driver)
        /\ fpc' = "get"
        /\ UNCHANGED <<driver, live, nCreated, errs>>
  /\ UNCHANGED <<pending, fret>>
  /\ FetchFrame

\* web_driver.driver().get(help_url), then the settle delay.
HelperGet ==
  /\ fpc = "get"
  /\ \/ fpc' = "source" /\ UNCHANGED errs
     \/ \E e \in FetchErrors : AttemptFails(e)
  /\ UNCHANGED <<attempts, driver, live, nCreated, pending, fret>>
  /\ FetchFrame

\* return web_driver.driver().page_source
HelperPageSource ==
  /\ fpc = "source"
  /\ \/ \E body \in PageBodies :
          /\ pending' = Ok(body)
          /\ fpc' = "exit"
          /\ UNCHANGED errs
     \/ /\ \E e \in FetchErrors : AttemptFails(e)
        /\ UNCHANGED pending
  /\ UNCHANGED <<attempts, driver, live, nCreated, fret>>
  /\ FetchFrame

\* retrying after a failed attempt: stop and re-raise, or wait and retry.
RetryDecision ==
  /\ fpc = "failed"
  /\ IF ShouldStop(attempts)
     THEN /\ pending' = Raise(errs[Len(errs)])
          /\ fpc' = "exit"
     ELSE /\ fpc' = "wait"
          /\ UNCHANGED pending
  /\ UNCHANGED <<attempts, driver, live, nCreated, errs, fret>>
  /\ FetchFrame

\* The jittered sleep ends and the next attempt begins, or an exception
\* (KeyboardInterrupt) is raised in the sleeping caller.
RetryWait ==
  /\ fpc = "wait"
  /\ \/ fpc' = "helper" /\ UNCHANGED pending
     \/ fpc' = "exit" /\ pending' = Raise("KeyboardInterrupt")
  /\ UNCHANGED <<attempts, driver, live, nCreated, errs, fret>>
  /\ FetchFrame

\* WebDriver.__exit__, then the call returns page_text or the exception
\* propagates.
FetchExit ==
  /\ fpc = "exit"
  /\ LET out == WebDriverExit(driver, live)
     IN driver' = out.driver /\ live' = out.live
  /\ fret' = pending
  /\ fpc' = "done"
  /\ UNCHANGED <<attempts, nCreated, errs, pending>>
  /\ FetchFrame

FetchNext ==
  \/ FetchCall \/ HelperStart \/ HelperGet \/ HelperPageSource
  \/ RetryDecision \/ RetryWait \/ FetchExit

(***************************************************************************)
(* shared_types.py HockeyTime.from_str.  Strings are sequences of          *)
(* characters.                                                             *)
(***************************************************************************)
Digits == <<"0", "1", "2", "3", "4", "5", "6", "7", "8", "9">>

\* str.split(sep): the pieces of s between the occurrences of the character sep
RECURSIVE Split(_, _)
Split(s, sep) ==
  LET at == {i \in 1..Len(s) : s[i] = sep}
  IN IF at = {} THEN <<s>>
     ELSE LET first == CHOOSE i \in at : \A j \in at : i <= j
          IN <<SubSeq(s, 1, first - 1)>> \o Split(SubSeq(s, first + 1, Len(s)), sep)

\* int(s) for a string of the page: decimal digits, else ValueError
IsInt(s) == Len(s) > 0 /\ \A i \in 1..Len(s) : \E d \in 1..10 : Digits[d] = s[i]
DigitValue(c) == (CHOOSE d \in 1..10 : Digits[d] = c) - 1
RECURSIVE IntOf(_)
IntOf(s) ==
  IF s = <<>> THEN 0 ELSE 10 * IntOf(SubSeq(s, 1, Len(s) - 1)) + DigitValue(s[Len(s)])

HockeyTime(period, secs) == [period |-> period, secs |-> secs]

\* from_str: MM:SS, or SS.x when the text does not split in two at ":".
FromStr(period, clockTime) ==
  LET byColon == Split(clockTime, ":")
      byDot == Split(clockTime, ".")
  IN IF Len(byColon) = 2
     THEN IF IsInt(byColon[1]) /\ IsInt(byColon[2])
          THEN Ok(HockeyTime(period, IntOf(byColon[1]) * 60 + IntOf(byColon[2])))
          ELSE Raise("ValueError")
     ELSE IF Len(byDot) = 2 /\ IsInt(byDot[1])
          THEN Ok(HockeyTime(period, 0 * 60 + IntOf(byDot[1])))
          ELSE Raise("ValueError")

(***************************************************************************)
(* game_data.py _load_game_data_online: the scan of the page's rows.       *)
(***************************************************************************)
UpperCase == <<"A", "B", "C", "D", "E", "F", "G", "H", "I", "J", "K", "L", "M", "N", "O", "P", "Q", "R", "S", "T", "U", "V", "W", "X", "Y", "Z">>
LowerCase == <<"a", "b", "c", "d", "e", "f", "g", "h", "i", "j", "k", "l", "m", "n", "o", "p", "q", "r", "s", "t", "u", "v", "w", "x", "y", "z">>

\* str.lower()
LowerChar(c) ==
  IF \E k \in 1..26 : UpperCase[k] = c
  THEN LowerCase[CHOOSE k \in 1..26 : UpperCase[k] = c]
  ELSE c
Lower(s) == [i \in 1..Len(s) |-> LowerChar(s[i])]

\* s.find(pat) != -1
Found(s, pat) ==
  \E i \in 1..(Len(s) - Len(pat) + 1) : SubSeq(s, i, i + Len(pat) - 1) = pat

EndOf == <<"E", "n", "d", " ", "o", "f", " ">>
TwentyMinutes == <<"2", "0", ":", "0", "0">>
GOAL == <<"G", "O", "A", "L">>
faceoff == <<"f", "a", "c", "e", "o", "f", "f">>
shot == <<"s", "h", "o", "t">>

Play(hockeyTime, type, team) == [hockey_time |-> hockeyTime, type |-> type, team |-> team]

\* The type of the play a description stands for, "none" when it is no play.
PlayTypeShotFirst(description) ==
  IF Found(Lower(description), shot) THEN "shot"
  ELSE IF Found(description, GOAL) THEN "goal"
  ELSE IF Found(Lower(description), faceoff) THEN "face_off"
  ELSE "none"
PlayType(description) ==
  IF Found(description, GOAL) THEN "goal"
  ELSE IF Found(Lower(description), faceoff) THEN "face_off"
  ELSE IF Found(Lower(description), shot) THEN "shot"
  ELSE "none"

IsEndOfPeriod(row) == Len(row) > 0 /\ row[Len(row)] = EndOf

\* The loop over the rows from row i on: Ok of the final period counter and
\* result_pbp, or the exception a clock text raised.
RECURSIVE Scan(_, _, _, _, _)
Scan(rows, i, startedPbp, period, resultPbp) ==
  IF i > Len(rows) THEN Ok([period |-> period, result_pbp |-> resultPbp])
  ELSE
    LET row == rows[i]
        marker == IsEndOfPeriod(row)
        period1 == IF marker THEN period - 1 ELSE period
        started1 == startedPbp \/ marker
        result1 == IF marker
                   THEN Append(resultPbp,
                               Play(FromStr(period1, TwentyMinutes).val, "end_of_period", None))
                   ELSE resultPbp
    IN IF ~started1 \/ Len(row) # 5 THEN Scan(rows, i + 1, started1, period1, result1)
       ELSE LET hockeyTime == FromStr(period1, row[4])
                type == PlayType(row[5])
            IN IF ~hockeyTime.ok THEN hockeyTime
               ELSE Scan(rows, i + 1, started1, period1,
                         IF type # "none"
                         THEN Append(result1, Play(hockeyTime.val, type, Str(row[3])))
                         ELSE result1)

Reversed(s) == [i \in 1..Len(s) |-> s[Len(s) + 1 - i]]

\* The remap after the scan: reversed(result_pbp) with 1 - period added to
\* every play's period.
RemapForward(scan) ==
  [i \in 1..Len(scan.result_pbp) |->
     [scan.result_pbp[i] EXCEPT !.hockey_time.period = @ + 1 - scan.period]]
Remap(scan) ==
  LET rev == Reversed(scan.result_pbp)
  IN [i \in 1..Len(rev) |-> [rev[i] EXCEPT !.hockey_time.period = @ + 1 - scan.period]]

\* The play-by-play of a page: Ok of the plays in order, or the exception.
ParsePlayByPlay(rows) ==
  LET scan == Scan(rows, 1, FALSE, 0, <<>>)
  IN IF scan.ok THEN Ok(Remap(scan.val)) ELSE scan

(***************************************************************************)
(* The parser model: a page is put together row by row and then parsed.    *)
(* A play row has five spans, the team in the third, the clock in the      *)
(* fourth and the description in the fifth; an end-of-period row ends with *)
(* the text "End of ".                                                     *)
(***************************************************************************)
MaxPeriodRows == 6
MaxDescRows == 3

Away == <<"C", "A", "R">>
Home == <<"C", "H", "I">>
PlayRow(team, clock, description) == <<<<>>, <<>>, team, clock, description>>
MarkerRow == <<<<"3", "r", "d", " ", "P", "e", "r", "i", "o", "d">>, EndOf>>
ShortRow == <<<<>>, Home, <<"H", "i", "t">>>>

TenMinutes == <<"1", "0", ":", "0", "0">>
FortyFiveSeconds == <<"4", "5", ".", "6">>
BadClock == <<"1", "O", ":", "0", "0">>

\* The rows of pages that differ in their periods and clocks.
PeriodRows ==
  { MarkerRow,
    PlayRow(Away, TenMinutes, GOAL),
    PlayRow(Home, FortyFiveSeconds, <<"S", "h", "o", "t", " ", "o", "n", " ", "g", "o", "a", "l">>),
    PlayRow(Away, BadClock, GOAL) }

DescGoalOnShot == <<"G", "O", "A", "L", " ", "s", "c", "o", "r", "e", "d", " ", "o", "n", " ", "s", "h", "o", "t">>
DescShotOnGoal == <<"S", "h", "o", "t", " ", "o", "n", " ", "g", "o", "a", "l">>
DescGoalLower == <<"G", "o", "a", "l", " ", "d", "i", "s", "a", "l", "l", "o", "w", "e", "d">>
DescFaceoffShot == <<"F", "a", "c", "e", "o", "f", "f", " ", "w", "o", "n", ",", " ", "s", "h", "o", "t">>
DescFaceoffGoal == <<"f", "a", "c", "e", "o", "f", "f", " ", "G", "O", "A", "L">>
DescShotUpper == <<"S", "H", "O", "T">>
DescHit == <<"H", "i", "t">>
Descriptions ==
  { GOAL, DescGoalOnShot, DescShotOnGoal, DescGoalLower, DescFaceoffShot,
    DescFaceoffGoal, DescShotUpper, DescHit }

\* The rows of pages that differ in their descriptions.
DescRows ==
  {MarkerRow, ShortRow} \cup {PlayRow(Home, TenMinutes, d) : d \in Descriptions}

NotParsed == [done |-> FALSE, out |-> Ok(<<>>)]

ParseInit ==
  /\ page = <<>>
  /\ parsed = NotParsed

AddRow(rows, maxRows) ==
  /\ ~parsed.done
  /\ Len(page) < maxRows
  /\ \E row \in rows : page' = Append(page, row)
  /\ UNCHANGED <<parsed, cacheVars, fetchVars, statVars, storeVars, callers, datasetVars, accessVars>>

AddPeriodRow == AddRow(PeriodRows, MaxPeriodRows)
AddDescRow == AddRow(DescRows, MaxDescRows)

\* The parse of the page in _load_game_data_online.
RunParse ==
  /\ ~parsed.done
  /\ parsed' = [done |-> TRUE, out |-> ParsePlayByPlay(page)]
  /\ UNCHANGED <<page, cacheVars, fetchVars, statVars, storeVars, callers, datasetVars, accessVars>>

RemapNext == AddPeriodRow \/ RunParse
ClassifyNext == AddDescRow \/ RunParse

(***************************************************************************)
(* shared_types.py GameData: the constructor computes the derived values   *)
(* eagerly; the accessors compute them again only when they are None.      *)
(***************************************************************************)
PyInt(n) == [t |-> "int", v |-> n]
Game(date, away, home) == [date |-> date, away |-> Str(away), home |-> Str(home)]

\* _count_plays_by_team: from play i on, with the counts so far; a play of a
\* counted type whose team is neither side of the game raises KeyError.
RECURSIVE CountFrom(_, _, _, _)
CountFrom(plays, types, i, result) ==
  IF i > Len(plays) THEN Ok(result)
  ELSE IF plays[i].type \in types
       THEN IF plays[i].team \in DOMAIN result
            THEN CountFrom(plays, types, i + 1,
                           [result EXCEPT ![plays[i].team] = @ + 1])
            ELSE Raise("KeyError")
       ELSE CountFrom(plays, types, i + 1, result)
CountPlaysByTeam(obj, types) ==
  CountFrom(obj.pbp, types, 1, [team \in {obj.game.away, obj.game.home} |-> 0])

\* _compute_atts
ComputeAttsShotsOnly(obj) ==
  LET atts == CountPlaysByTeam(obj, {"shot"})
  IN IF ~atts.ok THEN atts
     ELSE Ok([obj EXCEPT !.away_att = PyInt(atts.val[obj.game.away]),
                         !.home_att = PyInt(atts.val[obj.game.home])])
ComputeAtts(obj) ==
  LET atts == CountPlaysByTeam(obj, {"shot", "goal"})
  IN IF ~atts.ok THEN atts
     ELSE Ok([obj EXCEPT !.away_att = PyInt(atts.val[obj.game.away]),
                         !.home_att = PyInt(atts.val[obj.game.home])])

\* _compute_scores
ComputeScores(obj) ==
  LET scores == CountPlaysByTeam(obj, {"goal"})
  IN IF ~scores.ok THEN scores
     ELSE LET away == scores.val[obj.game.away]
              home == scores.val[obj.game.home]
              scored == [obj EXCEPT !.away_score = PyInt(away), !.home_score = PyInt(home)]
          IN Ok(IF away < home THEN [scored EXCEPT !.winner = obj.game.home]
                ELSE IF away > home THEN [scored EXCEPT !.winner = obj.game.away]
                ELSE [scored EXCEPT !.tie = TRUE])

\* GameData.__init__
GameDataNew(game, plays) ==
  LET blank == [t |-> "GameData", game |-> game, pbp |-> plays,
                away_att |-> None, home_att |-> None,
                away_score |-> None, home_score |-> None,
                winner |-> None, tie |-> FALSE]
      withAtts == ComputeAtts(blank)
  IN IF ~withAtts.ok THEN withAtts ELSE ComputeScores(withAtts.val)

\* The properties: the object after the access, and the value returned.
Got(obj, value) == [obj |-> obj, val |-> value]
\* The test each property makes before it computes.
AwayAttIsNone(obj) == obj.away_att = None
HomeAttIsNone(obj) == obj.home_att = None
AwayScoreIsNone(obj) == obj.away_score = None
HomeScoreIsNone(obj) == obj.home_score = None
WinnerIsNoneIgnoringTie(obj) == obj.winner = None
WinnerIsNoneAndNotTie(obj) == obj.winner = None /\ ~obj.tie
AwayAtt(obj) ==
  LET now == IF AwayAttIsNone(obj) THEN ComputeAtts(obj).val ELSE obj
  IN Got(now, now.away_att)
HomeAtt(obj) ==
  LET now == IF HomeAttIsNone(obj) THEN ComputeAtts(obj).val ELSE obj
  IN Got(now, now.home_att)
AwayScore(obj) ==
  LET now == IF AwayScoreIsNone(obj) THEN ComputeScores(obj).val ELSE obj
  IN Got(now, now.away_score)
HomeScore(obj) ==
  LET now == IF HomeScoreIsNone(obj) THEN ComputeScores(obj).val ELSE obj
  IN Got(now, now.home_score)
Winner(obj) ==
  LET now == IF WinnerIsNoneAndNotTie(obj) THEN ComputeScores(obj).val ELSE obj
  IN Got(now, now.winner)

(***************************************************************************)
(* The statistics model: plays are collected and GameData is constructed.  *)
(***************************************************************************)
MaxPlays == 4

Other == <<"T", "O", "R">>
TheGame == Game(<<"2", "0", "1", "9", "0", "1", "0", "5">>, Away, Home)
StatPlays ==
  {Play(HockeyTime(1, 0), type, Str(team)) :
     type \in {"goal", "shot", "face_off"}, team \in {Away, Home}}
  \cup {Play(HockeyTime(1, 1200), "end_of_period", None),
        Play(HockeyTime(1, 0), "goal", Str(Other))}

NotBuilt == [done |-> FALSE, out |-> Ok(None)]

StatInit ==
  /\ pbp = <<>>
  /\ gd = NotBuilt

AddPlay ==
  /\ ~gd.done
  /\ Len(pbp) < MaxPlays
  /\ \E play \in StatPlays : pbp' = Append(pbp, play)
  /\ UNCHANGED <<gd, cacheVars, fetchVars, parseVars, storeVars, callers, datasetVars, accessVars>>

\* GameData(game=game, pbp=pbp)
Construct ==
  /\ ~gd.done
  /\ gd' = [done |-> TRUE, out |-> GameDataNew(TheGame, pbp)]
  /\ UNCHANGED <<pbp, cacheVars, fetchVars, parseVars, storeVars, callers, datasetVars, accessVars>>

StatNext == AddPlay \/ Construct

(***************************************************************************)
(* game_data.py load_game_data: lru_cache over memoize(str(game),          *)
(* BasicCacher()) over _load_game_data_online.  A fetched page is          *)
(* represented by the rows BeautifulSoup finds in it.                      *)
(***************************************************************************)
MaxReads == 3

\* Game.__str__: f"{date}-{away}-{home}"
StrOfGame(game) == game.date \o <<"-">> \o game.away.v \o <<"-">> \o game.home.v

Html(rows) == [t |-> "html", rows |-> rows]

\* _load_game_data_online, given what read_url_to_string returned or raised.
LoadGameDataOnline(game, fetched) ==
  IF ~fetched.ok THEN fetched
  ELSE LET plays == ParsePlayByPlay(fetched.val.rows)
       IN IF ~plays.ok THEN plays ELSE GameDataNew(game, plays.val)

Games == {Game(<<"2", "0", "1", "9", "0", "1", "0", "5">>, Away, Home), Game(<<"2", "0", "1", "9", "0", "1", "0", "6">>, Away, Home)}

\* What a read of a game's page can give: the page as it is at the time, or
\* the error of the last attempt.
StorePages ==
  { Html(<<MarkerRow, PlayRow(Away, TenMinutes, GOAL)>>),
    Html(<<MarkerRow, PlayRow(Home, FortyFiveSeconds, DescShotOnGoal), MarkerRow>>),
    Html(<<MarkerRow, PlayRow(Away, TenMinutes, GOAL), PlayRow(Home, BadClock, GOAL)>>),
    Html(<<MarkerRow, PlayRow(Other, TenMinutes, GOAL)>>) }
FetchOutcomes == {Ok(html) : html \in StorePages} \cup {Raise(e) : e \in FetchErrors}

NoMemo == [g \in {} |-> None]
NoCall == [game |-> None, ret |-> Ok(None), fetched |-> FALSE]

StoreInit ==
  /\ memo = NoMemo
  /\ last = NoCall
  /\ tick = FALSE
  /\ firstOk = [g \in Games |-> None]
  /\ nReads = [g \in Games |-> 0]
  /\ nOk = [g \in Games |-> 0]

\* load_game_data(game), with what the page read gives if it is made.
LoadGameData ==
  \E game \in Games, fetched \in FetchOutcomes :
    /\ nReads[game] < MaxReads
    /\ tick' = ~tick
    /\ IF game \in DOMAIN memo
       THEN /\ last' = [game |-> game, ret |-> Ok(memo[game]), fetched |-> FALSE]
            /\ UNCHANGED <<files, memo, nReads, nOk>>
       ELSE LET out == FuncWithMemo(files, StrOfGame(game),
                                    LoadGameDataOnline(game, fetched))
            IN /\ files' = out.fs
               /\ last' = [game |-> game, ret |-> out.ret, fetched |-> out.called]
               /\ memo' = IF out.ret.ok
                          THEN [g \in DOMAIN memo \cup {game} |->
                                  IF g = game THEN out.ret.val ELSE memo[g]]
                          ELSE memo
               /\ nReads' = IF out.called
                            THEN [nReads EXCEPT ![game] = @ + 1] ELSE nReads
               /\ nOk' = IF out.called /\ out.ret.ok
                         THEN [nOk EXCEPT ![game] = @ + 1] ELSE nOk
    /\ firstOk' = IF last'.ret.ok /\ firstOk[game] = None
                  THEN [firstOk EXCEPT ![game] = last'.ret.val] ELSE firstOk
    /\ UNCHANGED <<op, ret, called, fresh, fetchVars, parseVars, statVars, callers, datasetVars, accessVars>>

\* A later run: the lru_cache is empty, the data directory is the same.
NewRun ==
  /\ memo # NoMemo
  /\ memo' = NoMemo
  /\ UNCHANGED <<last, tick, firstOk, nReads, nOk, cacheVars, fetchVars, parseVars, statVars, callers, datasetVars, accessVars>>

StoreNext == LoadGameData \/ NewRun

(***************************************************************************)
(* load_game_data called once by each of several threads of one process.   *)
(* lru_cache looks the game up, runs the function without holding a lock   *)
(* and stores what it returned; memoize reads, runs and writes without a   *)
(* lock either.  Each thread steps through its own call.                   *)
(***************************************************************************)
NumCallers == 2

Callers == 1..NumCallers
Idle == [pc |-> "idle", game |-> None, result |-> None, ret |-> Ok(None)]

FlightInit == callers = [t \in Callers |-> Idle]

\* What a step of a call leaves alone besides files, memo and nReads.
FlightFrame ==
  UNCHANGED <<op, ret, called, fresh, last, tick, firstOk, nOk,
              fetchVars, parseVars, statVars, datasetVars, accessVars>>

Returns(t, r) == callers' = [callers EXCEPT ![t].pc = "done", ![t].ret = r]
Goes(t, pc) == callers' = [callers EXCEPT ![t].pc = pc]

\* load_game_data(game) is called.
CallLoad(t) ==
  /\ callers[t].pc = "idle"
  /\ \E game \in Games : callers' = [callers EXCEPT ![t].pc = "lookup", ![t].game = game]
  /\ UNCHANGED <<files, memo, nReads>>
  /\ FlightFrame

\* lru_cache: a hit returns the stored record.
LruLookup(t) ==
  /\ callers[t].pc = "lookup"
  /\ IF callers[t].game \in DOMAIN memo
     THEN Returns(t, Ok(memo[callers[t].game]))
     ELSE Goes(t, "read")
  /\ UNCHANGED <<files, memo, nReads>>
  /\ FlightFrame

\* func_with_memo: cached_value = cacher.try_to_read(key)
CacheRead(t) ==
  /\ callers[t].pc = "read"
  /\ LET cached == TryToRead(files, StrOfGame(callers[t].game))
     IN IF ~cached.ok THEN Returns(t, cached)
        ELSE IF cached.val # None
             THEN callers' = [callers EXCEPT ![t].pc = "store", ![t].result = cached.val]
             ELSE Goes(t, "online")
  /\ UNCHANGED <<files, memo, nReads>>
  /\ FlightFrame

\* func_with_memo: result = func(), the page read and the parse.
RunOnline(t) ==
  /\ callers[t].pc = "online"
  /\ \E fetched \in FetchOutcomes :
       LET result == LoadGameDataOnline(callers[t].game, fetched)
       IN IF ~result.ok THEN Returns(t, result)
          ELSE callers' = [callers EXCEPT ![t].pc = "open", ![t].result = result.val]
  /\ nReads' = [nReads EXCEPT ![callers[t].game] = @ + 1]
  /\ UNCHANGED <<files, memo>>
  /\ FlightFrame

\* cacher.write: open(tkey, "wb")
WriteOpen(t) ==
  /\ callers[t].pc = "open"
  /\ files' = OpenForWrite(files, TransformKey(StrOfGame(callers[t].game)))
  /\ Goes(t, "dump")
  /\ UNCHANGED <<memo, nReads>>
  /\ FlightFrame

\* cacher.write: pickle.dump(value, f) and the close of the file
WriteDump(t) ==
  /\ callers[t].pc = "dump"
  /\ files' = DumpTo(files, TransformKey(StrOfGame(callers[t].game)), callers[t].result)
  /\ Goes(t, "store")
  /\ UNCHANGED <<memo, nReads>>
  /\ FlightFrame

\* lru_cache stores what the function returned, and the call returns it.
LruStore(t) ==
  /\ callers[t].pc = "store"
  /\ memo' = [g \in DOMAIN memo \cup {callers[t].game} |->
                IF g = callers[t].game THEN callers[t].result ELSE memo[g]]
  /\ Returns(t, Ok(callers[t].result))
  /\ UNCHANGED <<files, nReads>>
  /\ FlightFrame

FlightNext ==
  \/ \E t \in Callers : CallLoad(t)
  \/ \E t \in Callers : LruLookup(t)
  \/ \E t \in Callers : CacheRead(t)
  \/ \E t \in Callers : RunOnline(t)
  \/ \E t \in Callers : WriteOpen(t)
  \/ \E t \in Callers : WriteDump(t)
  \/ \E t \in Callers : LruStore(t)

(***************************************************************************)
(* Python floats as make_dataset computes with them: IEEE 754 binary64,    *)
(* every operation rounded to nearest, ties to even.  A float is a sign,   *)
(* 53 significand bits (the highest first, and set) and an exponent; its   *)
(* value is 0.bits * 2^exp.  Zero has no bits.                             *)
(***************************************************************************)
Precision == 53
ExpansionBits == 64

Float(neg, bits, exp) == [neg |-> neg, bits |-> bits, exp |-> exp]
Zero == Float(FALSE, <<>>, 0)
IsZero(x) == Len(x.bits) = 0

Zeros(n) == [i \in 1..n |-> 0]
LeadingZeros(bits) ==
  IF \A i \in 1..Len(bits) : bits[i] = 0 THEN Len(bits)
  ELSE (CHOOSE i \in 1..Len(bits) : bits[i] = 1 /\ \A j \in 1..(i - 1) : bits[j] = 0) - 1

\* One unit in the last place more: the bits, and the carry out of them.
Increment(bits) ==
  IF \A i \in 1..Len(bits) : bits[i] = 1
  THEN [bits |-> <<1>> \o Zeros(Len(bits) - 1), carry |-> 1]
  ELSE LET j == CHOOSE i \in 1..Len(bits) :
                  bits[i] = 0 /\ \A k \in (i + 1)..Len(bits) : bits[k] = 1
       IN [bits |-> [i \in 1..Len(bits) |->
                       IF i < j THEN bits[i] ELSE IF i = j THEN 1 ELSE 0],
           carry |-> 0]

\* The float nearest to 0.bits * 2^exp, for bits of any length.
Round(neg, bits, exp) ==
  LET lead == LeadingZeros(bits)
      sig == SubSeq(bits, lead + 1, Len(bits))
      e == exp - lead
  IN IF Len(sig) = 0 THEN Zero
     ELSE IF Len(sig) <= Precision
     THEN Float(neg, sig \o Zeros(Precision - Len(sig)), e)
     ELSE LET kept == SubSeq(sig, 1, Precision)
              half == sig[Precision + 1] = 1
              sticky == \E i \in (Precision + 2)..Len(sig) : sig[i] = 1
              up == Increment(kept)
          IN IF half /\ (sticky \/ kept[Precision] = 1)
             THEN Float(neg, up.bits, e + up.carry)
             ELSE Float(neg, kept, e)

\* The float of a decimal literal with the value num / den, such as the 0.2
\* of the default test_portion (2 / 10): the binary expansion of the
\* quotient, with a last bit that tells whether anything is left, rounded.
RECURSIVE Binade(_, _)
Binade(p, q) == IF p < q THEN 0 ELSE 1 + Binade(p, 2 * q)
RECURSIVE Power2(_)
Power2(k) == IF k = 0 THEN 1 ELSE 2 * Power2(k - 1)
RECURSIVE Expand(_, _, _)
Expand(r, q, n) ==
  IF n = 0 THEN <<IF r = 0 THEN 0 ELSE 1>>
  ELSE <<(2 * r) \div q>> \o Expand((2 * r) % q, q, n - 1)
FloatOf(num, den) ==
  LET p == IF num < 0 THEN 0 - num ELSE num
      k == Binade(p, den)
  IN Round(num < 0, Expand(p, den * Power2(k), ExpansionBits), k)

\* 0 < x and x < 1.0
Positive(x) == ~IsZero(x) /\ ~x.neg
BelowOne(x) == IsZero(x) \/ x.neg \/ x.exp <= 0

\* 1.0 - x for 0 < x < 1.0: the two's complement of the fraction, rounded.
OneMinus(x) ==
  LET frac == Zeros(0 - x.exp) \o x.bits
      low == CHOOSE i \in 1..Len(frac) :
               frac[i] = 1 /\ \A j \in (i + 1)..Len(frac) : frac[j] = 0
  IN Round(FALSE, [i \in 1..Len(frac) |-> IF i < low THEN 1 - frac[i] ELSE frac[i]], 0)

\* n * x for an int n >= 0: the exact product of n and the significand,
\* taken LimbBits bits at a time from the lowest, rounded.
LimbBits == 13
RECURSIVE BitsOf(_)
BitsOf(n) == IF n = 0 THEN <<>> ELSE BitsOf(n \div 2) \o <<n % 2>>
RECURSIVE BitsValue(_)
BitsValue(bits) ==
  IF Len(bits) = 0 THEN 0
  ELSE 2 * BitsValue(SubSeq(bits, 1, Len(bits) - 1)) + bits[Len(bits)]
FixedBits(n, width) == Zeros(width - Len(BitsOf(n))) \o BitsOf(n)
RECURSIVE MulBits(_, _, _)
MulBits(bits, n, carry) ==
  IF Len(bits) = 0 THEN BitsOf(carry)
  ELSE LET width == IF Len(bits) < LimbBits THEN Len(bits) ELSE LimbBits
           limb == SubSeq(bits, Len(bits) - width + 1, Len(bits))
           t == n * BitsValue(limb) + carry
       IN MulBits(SubSeq(bits, 1, Len(bits) - width), n, t \div Power2(width))
            \o FixedBits(t % Power2(width), width)
Times(n, x) ==
  IF IsZero(x) THEN Zero
  ELSE LET prod == MulBits(x.bits, n, 0)
       IN Round(x.neg, prod, x.exp + Len(prod) - Precision)

\* int(x): the integer part, towards zero.
Trunc(x) ==
  IF IsZero(x) \/ x.exp <= 0 THEN 0
  ELSE LET whole == BitsValue(SubSeq(x.bits \o Zeros(x.exp - Precision), 1, x.exp))
       IN IF x.neg THEN 0 - whole ELSE whole

(***************************************************************************)
(* game_data.py get_games and make_dataset.  The schedule page of a date   *)
(* is represented by the cells BeautifulSoup finds in it: whether it has   *)
(* the table, and for each body row the teams its first two cells link to  *)
(* (None for a cell without a team link).                                  *)
(***************************************************************************)
MaxPerDate == 5

PyList(s) == [t |-> "list", v |-> s]
TrainTest(train, test) == [t |-> "TrainTest", train |-> train, test |-> test]

\* Season.get_all_dates, the first days of the season.
SeasonDates ==
  << <<"2", "0", "1", "8", "1", "0", "0", "1">>,
     <<"2", "0", "1", "8", "1", "0", "0", "2">> >>
Roster ==
  << <<"A", "N", "A">>, <<"B", "O", "S">>, <<"C", "A", "R">>, <<"C", "H", "I">>,
     <<"D", "A", "L">>, <<"D", "E", "T">>, <<"N", "Y", "R">>, <<"T", "O", "R">> >>

\* The page of a date on which the site lists n games: no table for a date
\* without games, else a row per game and a last row whose home cell links
\* to no team.
ScheduleRow(away, home) == [away |-> away, home |-> home]
SchedulePage(n) ==
  IF n = 0 THEN [t |-> "html", table |-> FALSE, rows |-> <<>>]
  ELSE [t |-> "html", table |-> TRUE,
        rows |-> [i \in 1..n |-> ScheduleRow(Str(Roster[i]), Str(Roster[i + 1]))]
                 \o <<ScheduleRow(Str(Roster[n + 1]), None)>>]

\* f"GAMES_FOR_DATE_{date}"
DateKey(date) == <<"GAMES_FOR_DATE_">> \o date

\* get_games_for_date_impl, given what read_url_to_string returned or
\* raised: a row missing a team is skipped.
RECURSIVE GamesOfRows(_, _, _)
GamesOfRows(date, rows, i) ==
  IF i > Len(rows) THEN <<>>
  ELSE IF rows[i].away = None \/ rows[i].home = None
  THEN GamesOfRows(date, rows, i + 1)
  ELSE <<Game(date, rows[i].away.v, rows[i].home.v)>> \o GamesOfRows(date, rows, i + 1)
GetGamesForDateImpl(date, fetched) ==
  IF ~fetched.ok THEN fetched
  ELSE IF ~fetched.val.table THEN Ok(PyList(<<>>))
  ELSE Ok(PyList(GamesOfRows(date, fetched.val.rows, 1)))

\* get_games(season) from the i-th date on, on the data directory fs, where
\* the site lists listed[i] games for the i-th date or is down: the games
\* so far, and the cache reads, page reads and cache writes so far.
SeasonOut(fs, r, games, io) == [fs |-> fs, ret |-> r, games |-> games, io |-> io]
RECURSIVE GetGames(_, _, _, _, _, _)
GetGames(fs, listed, down, i, games, io) ==
  IF i > Len(SeasonDates) THEN SeasonOut(fs, Ok(PyList(games)), games, io)
  ELSE LET date == SeasonDates[i]
           fetched == IF down THEN Raise("TimeoutException")
                      ELSE Ok(SchedulePage(listed[i]))
           impl == GetGamesForDateImpl(date, fetched)
           out == FuncWithMemo(fs, DateKey(date), impl)
           ops == io + 1 + (IF out.called THEN 1 ELSE 0)
                     + (IF out.called /\ impl.ok THEN 1 ELSE 0)
       IN IF ~out.ret.ok THEN SeasonOut(out.fs, out.ret, games, ops)
          ELSE GetGames(out.fs, listed, down, i + 1, games \o out.ret.val.v, ops)

\* make_dataset(season, test_portion)
MakeDatasetAssertLast(fs, listed, down, test_portion) ==
  LET got == GetGames(fs, listed, down, 1, <<>>, 0)
  IN IF ~got.ret.ok THEN got
     ELSE IF ~(Positive(test_portion) /\ BelowOne(test_portion))
     THEN SeasonOut(got.fs, Raise("AssertionError"), <<>>, got.io)
     ELSE LET games == got.games
              cutoff == Trunc(Times(Len(games), OneMinus(test_portion)))
          IN SeasonOut(got.fs,
                       Ok(TrainTest(SubSeq(games, 1, cutoff),
                                    SubSeq(games, cutoff + 1, Len(games)))),
                       games, got.io)
MakeDataset(fs, listed, down, test_portion) ==
  IF ~(Positive(test_portion) /\ BelowOne(test_portion))
  THEN SeasonOut(fs, Raise("AssertionError"), <<>>, 0)
  ELSE LET train_portion == OneMinus(test_portion)
           got == GetGames(fs, listed, down, 1, <<>>, 0)
       IN IF ~got.ret.ok THEN got
          ELSE LET games == got.games
                   cutoff == Trunc(Times(Len(games), train_portion))
               IN SeasonOut(got.fs,
                            Ok(TrainTest(SubSeq(games, 1, cutoff),
                                         SubSeq(games, cutoff + 1, Len(games)))),
                            games, got.io)

(***************************************************************************)
(* The dataset model: the site lists games for the dates of the season,    *)
(* and make_dataset is called with a test portion written in tenths: the   *)
(* literals -0.1, 0.0, 0.2, 0.5, 0.8, 1.0 and 1.1.                         *)
(***************************************************************************)
Tenths == 10
Portions == {[num |-> n, den |-> Tenths] : n \in {0 - 1, 0, 2, 5, 8, 10, 11}}
PortionFloat == [portion \in Portions |-> FloatOf(portion.num, portion.den)]
NoDataset ==
  [called |-> FALSE, portion |-> [num |-> 0, den |-> Tenths], ret |-> Ok(None),
   games |-> <<>>, io |-> 0]

DatasetInit ==
  /\ sched = [i \in 1..Len(SeasonDates) |-> 0]
  /\ ds = NoDataset

\* The site lists one more game for a date.
SiteLists ==
  /\ \E i \in 1..Len(SeasonDates) :
       /\ sched[i] < MaxPerDate
       /\ sched' = [sched EXCEPT ![i] = @ + 1]
  /\ UNCHANGED <<ds, cacheVars, fetchVars, parseVars, statVars, storeVars, callers, accessVars>>

\* make_dataset(season, test_portion), with the site up or down.
DoMakeDataset ==
  \E portion \in Portions, down \in BOOLEAN :
    LET out == MakeDataset(files, sched, down, PortionFloat[portion])
    IN /\ files' = out.fs
       /\ ds' = [called |-> TRUE, portion |-> portion, ret |-> out.ret,
                 games |-> out.games, io |-> out.io]
       /\ UNCHANGED <<sched, op, ret, called, fresh, fetchVars, parseVars, statVars,
                      storeVars, callers, accessVars>>

DatasetNext == SiteLists \/ DoMakeDataset

(***************************************************************************)
(* The properties model: a GameData is constructed and its properties are  *)
(* read.                                                                   *)
(***************************************************************************)
MaxAccessPlays == 2
MaxComputes == 3

Properties == {"away_att", "home_att", "away_score", "home_score", "winner"}
Unread == [t |-> "unread"]
NoInstance == [done |-> FALSE, out |-> Ok(None)]
NoAccess == [name |-> "none", val |-> None]

\* property name -> the access, and the computation it runs on obj if any.
Read(obj, name) ==
  CASE name = "away_att" -> AwayAtt(obj)
    [] name = "home_att" -> HomeAtt(obj)
    [] name = "away_score" -> AwayScore(obj)
    [] name = "home_score" -> HomeScore(obj)
    [] name = "winner" -> Winner(obj)
Runs(obj, name) ==
  CASE name = "away_att" -> IF AwayAttIsNone(obj) THEN "atts" ELSE "none"
    [] name = "home_att" -> IF HomeAttIsNone(obj) THEN "atts" ELSE "none"
    [] name = "away_score" -> IF AwayScoreIsNone(obj) THEN "scores" ELSE "none"
    [] name = "home_score" -> IF HomeScoreIsNone(obj) THEN "scores" ELSE "none"
    [] name = "winner" -> IF WinnerIsNoneAndNotTie(obj) THEN "scores" ELSE "none"

AccessInit ==
  /\ inst = NoInstance
  /\ firstGot = [name \in Properties |-> Unread]
  /\ lastGot = NoAccess
  /\ computes = [atts |-> 0, scores |-> 0]

\* GameData(game=game, pbp=plays): __init__ runs _compute_atts and, unless
\* that raised, _compute_scores, which raises only where _compute_atts does.
NewGameData ==
  /\ ~inst.done
  /\ \E plays \in SeqsUpTo(StatPlays, MaxAccessPlays) :
       LET out == GameDataNew(TheGame, plays)
       IN /\ inst' = [done |-> TRUE, out |-> out]
          /\ computes' = [atts |-> 1, scores |-> IF out.ok THEN 1 ELSE 0]
  /\ UNCHANGED <<firstGot, lastGot, cacheVars, fetchVars, parseVars, statVars,
                 storeVars, callers, datasetVars>>

\* A read of one of the properties of the instance.
Access ==
  /\ inst.done /\ inst.out.ok
  /\ computes.atts < MaxComputes /\ computes.scores < MaxComputes
  /\ \E name \in Properties :
       LET got == Read(inst.out.val, name)
           ran == Runs(inst.out.val, name)
       IN /\ inst' = [inst EXCEPT !.out = Ok(got.obj)]
          /\ lastGot' = [name |-> name, val |-> got.val]
          /\ firstGot' = IF firstGot[name] = Unread
                         THEN [firstGot EXCEPT ![name] = got.val] ELSE firstGot
          /\ computes' = [atts |-> computes.atts + (IF ran = "atts" THEN 1 ELSE 0),
                          scores |-> computes.scores + (IF ran = "scores" THEN 1 ELSE 0)]
  /\ UNCHANGED <<cacheVars, fetchVars, parseVars, statVars, storeVars, callers, datasetVars>>

AccessNext == NewGameData \/ Access

C5_SessionTeardown ==
  /\ (fpc = "helper" /\ attempts = 0) => (driver = "None" /\ nCreated = 0)
  /\ nCreated <= 1
  /\ live <= 1
  /\ fpc \in {"idle", "done"} => (live = 0 /\ driver = "None")

\* C5 witness: a call that created a session and used it in three attempts
\* has raised after retry exhaustion.
C5_Witness ==
  /\ fpc = "done" /\ ~fret.ok /\ nCreated = 1 /\ attempts = 3 /\ live = 0

(***************************************************************************)
(* Properties of the cache (SpecCache).                                   *)
(***************************************************************************)
CorruptErrors == {"EOFError", "UnpicklingError"}
IsCorrupt(fs, key) ==
  Exists(fs, TransformKey(key)) /\ ~PickleLoad(fs[TransformKey(key)]).ok

C6_CorruptIsNotAMiss ==
  [][/\ (op'.name = "read" /\ ~Exists(files, TransformKey(op'.key)))
          => ret' = Ok(None)
     /\ (op'.name \in {"read", "memo"} /\ IsCorrupt(files, op'.key))
          => (/\ ~ret'.ok
              /\ ret'.err \in CorruptErrors
              /\ ~called'
              /\ files' = files)]_vars

\* C6 witness: a memoized call on a key whose file is corrupt has raised.
C6_Witness ==
  /\ op.name = "memo" /\ IsCorrupt(files, op.key)
  /\ ~ret.ok /\ ret.err \in CorruptErrors /\ ~called

\* C14: a write under one key leaves what try_to_read returns for every
\* other key as it was before the write.
C14_DistinctKeysIndependent ==
  [][op'.name = "write" =>
       \A other \in Keys :
         other # op'.key => TryToRead(files', other) = TryToRead(files, other)]_vars

(***************************************************************************)
(* Properties of the parser (SpecRemap, SpecClassify).                    *)
(***************************************************************************)
\* The rows of the page up to row i that end a period.
MarkersUpTo(rows, i) == Cardinality({j \in 1..i : IsEndOfPeriod(rows[j])})

\* The classification the precedence rule gives each description of the model.
ExpectedType(description) ==
  CASE description = GOAL -> "goal"
    [] description = DescGoalOnShot -> "goal"
    [] description = DescShotOnGoal -> "shot"
    [] description = DescGoalLower -> "none"
    [] description = DescFaceoffShot -> "face_off"
    [] description = DescFaceoffGoal -> "goal"
    [] description = DescShotUpper -> "shot"
    [] description = DescHit -> "none"
    [] description = EndOf -> "none"

\* The seconds each clock text of the model stands for.
ExpectedSecs(clock) ==
  CASE clock = TenMinutes -> 600
    [] clock = FortyFiveSeconds -> 45
    [] clock = TwentyMinutes -> 1200

\* The rows that give an event, in scan order: the end-of-period rows, and the
\* 5-cell rows at or after the first of them whose description is a play.
EmittingRows(rows) ==
  {i \in 1..Len(rows) :
     \/ IsEndOfPeriod(rows[i])
     \/ /\ MarkersUpTo(rows, i) >= 1
        /\ Len(rows[i]) = 5
        /\ ExpectedType(rows[i][5]) # "none"}

\* The i-th smallest element of a set of numbers.
RECURSIVE NthOf(_, _)
NthOf(set, n) ==
  LET least == CHOOSE x \in set : \A y \in set : x <= y
  IN IF n = 1 THEN least ELSE NthOf(set \ {least}, n - 1)

\* The event row i is expected to give, once there are total periods.
ExpectedPlay(rows, i, total) ==
  IF IsEndOfPeriod(rows[i])
  THEN Play(HockeyTime(total + 1 - MarkersUpTo(rows, i), 1200), "end_of_period", None)
  ELSE Play(HockeyTime(total + 1 - MarkersUpTo(rows, i), ExpectedSecs(rows[i][4])),
            ExpectedType(rows[i][5]), Str(rows[i][3]))

\* The expected events of a page, latest scanned first.
ExpectedPlays(rows) ==
  LET emitting == EmittingRows(rows)
      n == Cardinality(emitting)
      total == MarkersUpTo(rows, Len(rows))
  IN [k \in 1..n |-> ExpectedPlay(rows, NthOf(emitting, n + 1 - k), total)]

\* Rows in reverse chronological order: within a period the clock of a later
\* row is not after that of an earlier row, the end-of-period row standing
\* for 20:00.
RowSecs(row) == IF IsEndOfPeriod(row) THEN 1200 ELSE ExpectedSecs(row[4])
ReverseChronological(rows) ==
  \A i, j \in EmittingRows(rows) :
    (i < j /\ MarkersUpTo(rows, i) = MarkersUpTo(rows, j))
      => RowSecs(rows[i]) >= RowSecs(rows[j])

NotAfter(t1, t2) ==
  t1.period < t2.period \/ (t1.period = t2.period /\ t1.secs <= t2.secs)

\* C8: a parsed page with P >= 1 end-of-period rows gives exactly the events of
\* its rows in the reverse of scan order, those under the m-th end-of-period row
\* (that row's own event too) with period P + 1 - m, so every period is in 1..P;
\* and when the rows are in reverse chronological order the events ascend by
\* (period, seconds).
C8_PeriodRemap ==
  (parsed.done /\ parsed.out.ok /\ MarkersUpTo(page, Len(page)) >= 1)
    => LET plays == parsed.out.val
           total == MarkersUpTo(page, Len(page))
       IN /\ plays = ExpectedPlays(page)
          /\ \A k \in 1..Len(plays) : plays[k].hockey_time.period \in 1..total
          /\ ReverseChronological(page)
               => \A k, l \in 1..Len(plays) :
                    k < l => NotAfter(plays[k].hockey_time, plays[l].hockey_time)

\* C8 witness: a parsed page of three periods in reverse chronological order
\* with a play in the first scanned period, now period 3, and one in the last,
\* now period 1.
C8_Witness ==
  /\ parsed.done /\ parsed.out.ok
  /\ MarkersUpTo(page, Len(page)) = 3
  /\ ReverseChronological(page)
  /\ IsEndOfPeriod(page[1])
  /\ \E k, l \in 1..Len(parsed.out.val) :
       /\ parsed.out.val[k].type = "goal"
       /\ parsed.out.val[k].hockey_time.period = 1
       /\ parsed.out.val[l].type = "shot"
       /\ parsed.out.val[l].hockey_time.period = 3

\* C9: the events of a parsed page are those of its end-of-period rows and of
\* its 5-cell rows after the first of them whose description is a play, each
\* with the type the precedence GOAL, faceoff, shot gives it; a row whose
\* description is no play gives no event.
C9_ClassificationPrecedence ==
  (parsed.done /\ parsed.out.ok)
    => LET plays == parsed.out.val
           expected == ExpectedPlays(page)
       IN /\ Len(plays) = Len(expected)
          /\ \A k \in 1..Len(plays) :
               /\ plays[k].type = expected[k].type
               /\ plays[k].team = expected[k].team

\* C9 witness: a parsed page with "GOAL scored on shot" after an end-of-period
\* row gave a goal, and its row "Hit" gave nothing.
C9_Witness ==
  /\ parsed.done /\ parsed.out.ok
  /\ page = <<MarkerRow, PlayRow(Home, TenMinutes, DescGoalOnShot),
              PlayRow(Home, TenMinutes, DescHit)>>
  /\ Len(parsed.out.val) = 2
  /\ parsed.out.val[1].type = "goal"

(***************************************************************************)
(* Properties of the derived statistics (SpecStats).                      *)
(***************************************************************************)
\* The plays of the given types by the given team.
PlaysOf(plays, types, team) ==
  Cardinality({i \in 1..Len(plays) : plays[i].type \in types /\ plays[i].team = team})

\* C10: a constructed record's scores are its numbers of goals by the away and
\* the home team, its attempts the numbers of shots and goals, face-offs and
\* ends of period counting for neither, and its winner the side with the
\* strictly higher score, None when the scores are equal.
C10_ScoreAttemptConsistency ==
  (gd.done /\ gd.out.ok)
    => LET obj == gd.out.val
           away == obj.game.away
           home == obj.game.home
           awayGoals == PlaysOf(pbp, {"goal"}, away)
           homeGoals == PlaysOf(pbp, {"goal"}, home)
       IN /\ AwayScore(obj).val = PyInt(awayGoals)
          /\ HomeScore(obj).val = PyInt(homeGoals)
          /\ AwayAtt(obj).val = PyInt(PlaysOf(pbp, {"shot", "goal"}, away))
          /\ HomeAtt(obj).val = PyInt(PlaysOf(pbp, {"shot", "goal"}, home))
          /\ Winner(obj).val = IF awayGoals > homeGoals THEN away
                               ELSE IF homeGoals > awayGoals THEN home
                               ELSE None

\* C10 witness: the record of [Goal(away), Shot(away), Goal(home),
\* FaceOff(home)] has scores 1 and 1, attempts 2 and 1 and no winner.
C10_Witness ==
  /\ gd.done /\ gd.out.ok
  /\ Len(pbp) = 4
  /\ pbp[1].type = "goal" /\ pbp[1].team = Str(Away)
  /\ pbp[2].type = "shot" /\ pbp[2].team = Str(Away)
  /\ pbp[3].type = "goal" /\ pbp[3].team = Str(Home)
  /\ pbp[4].type = "face_off" /\ pbp[4].team = Str(Home)
  /\ AwayScore(gd.out.val).val = PyInt(1) /\ HomeScore(gd.out.val).val = PyInt(1)
  /\ AwayAtt(gd.out.val).val = PyInt(2) /\ HomeAtt(gd.out.val).val = PyInt(1)
  /\ Winner(gd.out.val).val = None

(***************************************************************************)
(* Properties of the game data store, one call at a time (SpecStore).     *)
(***************************************************************************)
OnlineErrors == FetchErrors \cup {"ValueError", "KeyError"}

\* A call for a game of which an earlier call has returned reads no page and
\* returns the record that call returned.
LaterCallsHitTheCache ==
  \A game \in Games :
    (tick' # tick /\ last'.game = game /\ firstOk[game] # None)
      => (~last'.fetched /\ last'.ret = Ok(firstOk[game]))

\* C2 as stated: later calls hit the cache, and over any sequence of calls a
\* game's page is read at most once.
C2_EachPageFetchedAtMostOnce ==
  [][/\ LaterCallsHitTheCache
     /\ \A game \in Games : nReads'[game] <= 1]_vars

\* C2: a call for a game of which an earlier call has returned, in the same
\* run or a later one, reads no page and returns the record that call
\* returned; so at most one call per game reads the page and returns.
C2_CachedGameIsNotFetched ==
  [][/\ LaterCallsHitTheCache
     /\ \A game \in Games : nOk'[game] <= 1]_vars

\* C2 witness: in a run with an empty lru_cache, a call for a game an earlier
\* run has fetched returned its record without a page read, the other game
\* being cached too.
C2_Witness ==
  /\ last.game \in Games
  /\ ~last.fetched
  /\ last.ret.ok /\ last.ret = Ok(firstOk[last.game])
  /\ nOk[last.game] = 1
  /\ DOMAIN memo = {last.game}
  /\ \E other \in Games : other # last.game /\ nOk[other] = 1

CallersOf(game) == {t \in Callers : callers[t].game = game}

\* C1: when two or more threads have called load_game_data for the same game,
\* starting from an empty cache, and all have returned a record, exactly one
\* page read was made for the game and the records returned are equal.
C1_SingleFlight ==
  \A game \in Games :
    (/\ Cardinality(CallersOf(game)) >= 2
     /\ \A t \in CallersOf(game) : callers[t].pc = "done" /\ callers[t].ret.ok)
      => (/\ nReads[game] = 1
          /\ \A t, u \in CallersOf(game) : callers[t].ret = callers[u].ret)

(***************************************************************************)
(* The specifications: each runs one part of the program and leaves the    *)
(* state of the other parts as it was at the start.                        *)
(***************************************************************************)

(***************************************************************************)
(* Properties of the dataset builder (SpecDataset).                        *)
(***************************************************************************)
\* floor(count * (1 - testFraction)) for the fraction num / den.
ExactCutoff(count, portion) == (count * (portion.den - portion.num)) \div portion.den
InvalidPortion(portion) == portion.num <= 0 \/ portion.num >= portion.den

\* C11: a call of make_dataset that returns has split its game list at
\* cutoff = floor(count * (1 - testFraction)): train is the games at the
\* indices before cutoff and test the games from cutoff on, so that train
\* followed by test is the list.
C11_DeterministicSplit ==
  (ds.called /\ ds.ret.ok) =>
    LET cutoff == ExactCutoff(Len(ds.games), ds.portion)
    IN /\ ds.ret.val.train = SubSeq(ds.games, 1, cutoff)
       /\ ds.ret.val.test = SubSeq(ds.games, cutoff + 1, Len(ds.games))
       /\ ds.ret.val.train \o ds.ret.val.test = ds.games

\* C12: a call of make_dataset with a test portion that is not strictly
\* between 0 and 1 raises the assertion error and has done no I/O: it has
\* read no schedule page and has read or written no cache entry, so the
\* data directory is as it was.
C12_InvalidFractionBeforeIO ==
  [][(ds'.called /\ InvalidPortion(ds'.portion)) =>
       (ds'.ret = Raise("AssertionError") /\ ds'.io = 0 /\ files' = files)]_vars
\* A call with a portion out of range has raised, after an earlier call
\* filled the cache.
C12_Witness ==
  /\ ds.called /\ InvalidPortion(ds.portion)
  /\ ds.ret = Raise("AssertionError")
  /\ files # NoFiles

(***************************************************************************)
(* Properties of the properties of a GameData (SpecAccess).                *)
(***************************************************************************)
\* What a property is to return for the plays of the instance.
Derived(name, plays, game) ==
  LET awayGoals == PlaysOf(plays, {"goal"}, game.away)
      homeGoals == PlaysOf(plays, {"goal"}, game.home)
  IN CASE name = "away_att" -> PyInt(PlaysOf(plays, {"shot", "goal"}, game.away))
       [] name = "home_att" -> PyInt(PlaysOf(plays, {"shot", "goal"}, game.home))
       [] name = "away_score" -> PyInt(awayGoals)
       [] name = "home_score" -> PyInt(homeGoals)
       [] name = "winner" -> IF awayGoals > homeGoals THEN game.away
                             ELSE IF homeGoals > awayGoals THEN game.home
                             ELSE None

\* C13: on a GameData instance the computation of the attempts and the
\* computation of the scores and the winner have each run at most once,
\* whatever properties have been read and in whatever order; every read of
\* a property returns what its first read returned, and that is the value
\* the plays of the instance determine (no winner for a tied game).
C13_DerivedStatsStable ==
  (inst.done /\ inst.out.ok) =>
    /\ computes.atts <= 1 /\ computes.scores <= 1
    /\ lastGot.name \in Properties => lastGot.val = firstGot[lastGot.name]
    /\ \A name \in Properties :
         firstGot[name] # Unread =>
           firstGot[name] = Derived(name, inst.out.val.pbp, inst.out.val.game)

\* C13 witness: on the record of a 1-1 tie every property has been read,
\* and the last read, of winner, returned None as its first read did.
C13_Witness ==
  /\ inst.done /\ inst.out.ok
  /\ \A name \in Properties : firstGot[name] # Unread
  /\ firstGot["away_score"] = PyInt(1) /\ firstGot["home_score"] = PyInt(1)
  /\ lastGot = [name |-> "winner", val |-> None]
  /\ firstGot["winner"] = None
  /\ computes = [atts |-> 1, scores |-> 1]

Init ==
  /\ CacheInit /\ FetchIdle /\ ParseInit /\ StatInit /\ StoreInit /\ FlightInit
  /\ DatasetInit /\ AccessInit
SpecCache == Init /\ [][CacheNext]_vars
SpecFetch == Init /\ [][FetchNext]_vars
SpecRemap == Init /\ [][RemapNext]_vars
SpecClassify == Init /\ [][ClassifyNext]_vars
SpecStats == Init /\ [][StatNext]_vars
SpecStore == Init /\ [][StoreNext]_vars
SpecFlight == Init /\ [][FlightNext]_vars
SpecDataset == Init /\ [][DatasetNext]_vars
SpecAccess == Init /\ [][AccessNext]_vars

====
